---- MODULE Spec2Model ----
(***************************************************************************)
(* Model of the nanokvm control API actuation engine (src/src/control.rs): *)
(* the request handlers handle_input, handle_power_soft and                *)
(* handle_power_hard, the StateManager (in-memory State behind a Mutex,    *)
(* persisted to a JSON file) and the PCF8574 expander behind its Mutex.    *)
(* Each worker thread handles one request at a time; the steps of          *)
(* different workers interleave at every lock acquisition, physical write, *)
(* sleep and file write.  The handlers take the StateManager and the       *)
(* device by shared reference, so the model lets any number of workers     *)
(* (NThreads) run them at once, as a server with one worker per request    *)
(* does.  get_state and clear_and_regenerate_state are public operations   *)
(* of the StateManager that no route calls; a worker may call them too.    *)
(***************************************************************************)
EXTENDS Integers, Sequences, FiniteSets, TLC

\* ------------------------------------------------------------------ bounds
NThreads == 2
MaxRequests == 2
MaxBoots == 2

Threads == 1..NThreads

\* --------------------------------------------------------------- constants
VALID_IDS == {1, 2, 3, 4}

\* Option<T>: None is the empty tuple, Some(x) the one-element tuple.
None == <<>>
Some(x) == <<x>>

\* The id path segments a client may send, each standing for its numeral:
\* 256 is a numeral that str::parse::<u8> rejects.
IdStrs == {0, 1, 2, 3, 4, 5, 256}

\* The action query values a client may send.
ActionStrs == {"on", "OFF", "toggle", "reboot"}

\* str::parse::<u8>: Ok for the numerals of 0..255.
parse_u8(s) == IF s \in 0..255 THEN Some(s) ELSE None

parse_id_lax(id_str) == parse_u8(id_str)
parse_id(id_str) ==
  LET p == parse_u8(id_str)
  IN  IF p # None /\ p[1] \in VALID_IDS THEN p ELSE None

\* str::to_lowercase on the action values.
to_lowercase(a) ==
  CASE a = "OFF" -> "off"
    [] a = "ON" -> "on"
    [] a = "TOGGLE" -> "toggle"
    [] OTHER -> a

\* The configuration the handlers are called with: id 3 is mapped to a pin
\* the expander does not have, id 4 is not mapped.
input_config ==
  (1 :> [pin |-> 0, pushed_state |-> 1]) @@
  (2 :> [pin |-> 1, pushed_state |-> 0]) @@
  (3 :> [pin |-> 9, pushed_state |-> 0])

power_hard_config ==
  (1 :> [pin |-> 4, on_state |-> 1]) @@
  (2 :> [pin |-> 5, on_state |-> 0]) @@
  (3 :> [pin |-> 8, on_state |-> 0])

\* handle_power is handed the soft-power mapping too; handle_power_soft does
\* not take it.
power_soft_config ==
  (1 :> [pin |-> 6, pushed_state |-> 0]) @@
  (2 :> [pin |-> 7, pushed_state |-> 1]) @@
  (3 :> [pin |-> 10, pushed_state |-> 0])

\* HashMap::get(&id) on a pin configuration.
config_get_or_first(config, id) ==
  IF id \in DOMAIN config THEN Some(config[id]) ELSE Some(config[1])
config_get(config, id) ==
  IF id \in DOMAIN config THEN Some(config[id]) ELSE None

\* ------------------------------------------------------------------- State
State_default ==
  [current_input |-> None, hard_power_state |-> [id \in VALID_IDS |-> 0]]

\* u8::to_string of a map key, as serde_json writes it.
key_to_string(k) ==
  CASE k = 1 -> "1" [] k = 2 -> "2" [] k = 3 -> "3" [] k = 4 -> "4"

\* serde_json::to_string_pretty(&State): current_input is null or the number,
\* hard_power_state an object keyed by the stringified ids.
to_string_pretty_skips_input(s) ==
  [current_input |-> "null",
   hard_power_state |->
     { <<key_to_string(k), s.hard_power_state[k]>> : k \in DOMAIN s.hard_power_state }]
to_string_pretty(s) ==
  [current_input |-> IF s.current_input = None THEN "null"
                     ELSE key_to_string(s.current_input[1]),
   hard_power_state |->
     { <<key_to_string(k), s.hard_power_state[k]>> : k \in DOMAIN s.hard_power_state }]

Requests ==
  [kind : {"input"}, id_str : IdStrs, action : {""}] \cup
  [kind : {"soft"}, id_str : IdStrs, action : {"on"}] \cup
  [kind : {"hard"}, id_str : IdStrs, action : ActionStrs] \cup
  [kind : {"status", "reset"}, id_str : {0}, action : {""}]

NoRequest == [kind |-> "none", id_str |-> 0, action |-> ""]

VARIABLES
  state,            \* StateManager.state: the in-memory State
  file,             \* content of the file at storage_path
  stLock,           \* holders of StateManager.state's Mutex
  devLock,          \* holders of the Pcf8574 Mutex
  pc,               \* per worker: its position in the handler
  req,              \* per worker: the request it handles
  result,           \* per worker: the response of its request
  snapshot,         \* per worker: the State its get_state returned
  trace,            \* per worker: what its request has done, in order
  changed,          \* per worker: its request changed the in-memory State
  overtaken,        \* per worker: another mutation fell between its change and its save
  completedInputs,  \* ids of the selections whose two writes both succeeded
  started,          \* requests received so far
  proc,             \* the process: "down", "up" (serving) or "aborted" (main returned Err)
  fileExists,       \* whether there is a file at storage_path
  boots,            \* calls of StateManager::new so far
  origin,           \* what the first start found at storage_path: None or Some(content)
  pins,             \* the expander's outputs: <<pin, level>> for each pin written so far
  lastAssert,       \* the id of the select_input whose assert write came last
  failures          \* what has failed so far: <<"persist", 0>>, <<"assert" or "release", pin>>

\* The variables of the process's life, which no request handler touches.
life == <<proc, fileExists, boots, origin>>

\* What is seen of the device and of failures, which only set_pin and
\* save_state change.
probe == <<pins, lastAssert, failures>>

vars == <<state, file, stLock, devLock, pc, req, result, snapshot, trace, changed,
          overtaken, completedInputs, started, proc, fileExists, boots, origin,
          pins, lastAssert, failures>>

\* ---------------------------------------------------------------- helpers
\* serde_json::from_str::<State>: the inverse reading of the file content.
string_to_key(k) ==
  CASE k = "1" -> 1 [] k = "2" -> 2 [] k = "3" -> 3 [] k = "4" -> 4

from_str(contents) ==
  [current_input |-> IF contents.current_input = "null" THEN None
                     ELSE Some(string_to_key(contents.current_input)),
   hard_power_state |->
     [id \in { string_to_key(e[1]) : e \in contents.hard_power_state } |->
        (CHOOSE e \in contents.hard_power_state : string_to_key(e[1]) = id)[2]]]

\* HashMap::insert
insert_reset_others(m, k, v) == [x \in DOMAIN m \cup {k} |-> IF x = k THEN v ELSE 0]
insert(m, k, v) == [x \in DOMAIN m \cup {k} |-> IF x = k THEN v ELSE m[x]]

is_valid_action(action_lower) == action_lower \in {"on", "off", "toggle"}

\* StatusResponse::from(State): the status as it is reported, an entry "on"
\* or "off" for each of VALID_IDS.
StatusResponse_from_unset_on(s) ==
  [current_input |-> s.current_input,
   hard_power |->
     [k \in { key_to_string(id) : id \in VALID_IDS } |->
        LET id == string_to_key(k)
            value == IF id \in DOMAIN s.hard_power_state
                       THEN s.hard_power_state[id] ELSE 1
        IN  IF value = 1 THEN "on" ELSE "off"]]
StatusResponse_from(s) ==
  [current_input |-> s.current_input,
   hard_power |->
     [k \in { key_to_string(id) : id \in VALID_IDS } |->
        LET id == string_to_key(k)
            value == IF id \in DOMAIN s.hard_power_state
                       THEN s.hard_power_state[id] ELSE 0
        IN  IF value = 1 THEN "on" ELSE "off"]]

\* handle_input: set_high when pushed_state is 1, set_low otherwise; then the inverse.
pushed_level(cfg) == IF cfg.pushed_state = 1 THEN 1 ELSE 0
inverse_pushed_level_low(cfg) == 0
inverse_pushed_level(cfg) == IF cfg.pushed_state = 1 THEN 0 ELSE 1

\* handle_power_hard: target_state / off_state as a level (1 high, 0 low).
on_level(cfg) == IF cfg.on_state = 1 THEN 1 ELSE 0
off_level(cfg) == IF cfg.on_state = 1 THEN 0 ELSE 1

\* The value handle_power_hard records for an action.
power_value_always_on(action_lower) == 1
power_value(action_lower) == IF action_lower = "off" THEN 0 ELSE 1

IdOf(r) == parse_id(r.id_str)[1]
ActionOf(r) == to_lowercase(r.action)
PinConfigOf(r) ==
  IF r.kind = "input" THEN config_get(input_config, IdOf(r))[1]
  ELSE config_get(power_hard_config, IdOf(r))[1]

\* The level a request writes in its first (Asserting) and second (Releasing) write.
first_level(r) ==
  IF r.kind = "input" THEN pushed_level(PinConfigOf(r))
  ELSE IF ActionOf(r) = "on" THEN on_level(PinConfigOf(r))
  ELSE off_level(PinConfigOf(r))

second_level_repeats_first(r) == first_level(r)
second_level(r) ==
  IF r.kind = "input" THEN inverse_pushed_level(PinConfigOf(r))
  ELSE on_level(PinConfigOf(r))

\* Whether the device guard lives in a block of its own ("Lock is released
\* here"): so in handle_input and in the toggle arm; the on and off arms bind
\* the guard in the arm itself, where it lives until the handler returns.
guard_never_scoped(r) == FALSE
guard_scoped_to_write(r) == r.kind = "input" \/ ActionOf(r) = "toggle"

\* Whether the action is a pulse: a second write follows the sleep.
is_pulse(r) == r.kind = "input" \/ ActionOf(r) = "toggle"

\* The holders of the device Mutex once t's handler has returned an error
\* response: the return drops the guard the handler holds.
kept_on_error_return(holders, t) == holders
released_on_error_return(holders, t) == holders \ {t}

\* Where a handler is after a set_high / set_low returned Err: at its end,
\* having built the 500 response.
retry_after_write_error(p) == IF p = "assert_locked" THEN "assert" ELSE "release"
return_after_write_error(p) == "done"

Event(op, a, b) == <<op, a, b>>

Ready(t) == proc = "up" /\ pc[t] \in {"idle", "done"} /\ started < MaxRequests

\* ------------------------------------------------------------------- Init
\* StateManager::new on a path with no file: the default State, written out.
Init ==
  /\ state = State_default
  /\ file = to_string_pretty(State_default)
  /\ stLock = {}
  /\ devLock = {}
  /\ pc = [t \in Threads |-> "idle"]
  /\ req = [t \in Threads |-> NoRequest]
  /\ result = [t \in Threads |-> "none"]
  /\ snapshot = [t \in Threads |-> None]
  /\ trace = [t \in Threads |-> <<>>]
  /\ changed = [t \in Threads |-> FALSE]
  /\ overtaken = [t \in Threads |-> FALSE]
  /\ completedInputs = {}
  /\ started = 0
  /\ proc = "up"
  /\ fileExists = TRUE
  /\ boots = 1
  /\ origin = None
  /\ pins = {}
  /\ lastAssert = None
  /\ failures = {}

\* A worker takes a request and runs the handler up to its first shared access.
Begin(t, r, next, res) ==
  /\ req' = [req EXCEPT ![t] = r]
  /\ pc' = [pc EXCEPT ![t] = next]
  /\ result' = [result EXCEPT ![t] = res]
  /\ snapshot' = [snapshot EXCEPT ![t] = None]
  /\ trace' = [trace EXCEPT ![t] = <<>>]
  /\ changed' = [changed EXCEPT ![t] = FALSE]
  /\ overtaken' = [overtaken EXCEPT ![t] = FALSE]
  /\ started' = started + 1
  /\ UNCHANGED <<state, file, stLock, devLock, completedInputs, life, probe>>

\* handle_input up to the call of update_current_input.
handle_input_never_records(t) ==
  /\ Ready(t)
  /\ \E id_str \in IdStrs :
       LET r == [kind |-> "input", id_str |-> id_str, action |-> ""]
           id == parse_id(id_str)
       IN  IF id = None THEN Begin(t, r, "done", "InvalidId")
           ELSE IF config_get(input_config, id[1]) = None
             THEN Begin(t, r, "done", "UnconfiguredId")
           ELSE Begin(t, r, "assert", "none")

handle_input(t) ==
  /\ Ready(t)
  /\ \E id_str \in IdStrs :
       LET r == [kind |-> "input", id_str |-> id_str, action |-> ""]
           id == parse_id(id_str)
       IN  IF id = None THEN Begin(t, r, "done", "InvalidId")
           ELSE IF config_get(input_config, id[1]) = None
             THEN Begin(t, r, "done", "UnconfiguredId")
           ELSE Begin(t, r, "upd", "none")

\* handle_power_soft: the stub.
handle_power_soft_actuates(t) ==
  /\ Ready(t)
  /\ \E id_str \in IdStrs :
       LET r == [kind |-> "soft", id_str |-> id_str, action |-> "on"]
       IN  IF parse_id(id_str) = None THEN Begin(t, r, "done", "InvalidId")
           ELSE Begin(t, r, "upd", "none")

handle_power_soft(t) ==
  /\ Ready(t)
  /\ \E id_str \in IdStrs :
       LET r == [kind |-> "soft", id_str |-> id_str, action |-> "on"]
       IN  IF parse_id(id_str) = None THEN Begin(t, r, "done", "InvalidId")
           ELSE Begin(t, r, "done", "Ok")

\* handle_power_hard up to its first lock of the device.
handle_power_hard(t) ==
  /\ Ready(t)
  /\ \E id_str \in IdStrs, action \in ActionStrs :
       LET r == [kind |-> "hard", id_str |-> id_str, action |-> action]
           id == parse_id(id_str)
       IN  IF ~is_valid_action(to_lowercase(action))
             THEN Begin(t, r, "done", "InvalidAction")
           ELSE IF id = None THEN Begin(t, r, "done", "InvalidId")
           ELSE IF config_get(power_hard_config, id[1]) = None
             THEN Begin(t, r, "done", "UnconfiguredId")
           ELSE IF config_get(power_hard_config, id[1])[1].pin > 7
             THEN Begin(t, r, "done", "InvalidPin")
           ELSE Begin(t, r, "assert", "none")

\* A worker calls get_state (the snapshot of the record).
status(t) ==
  /\ Ready(t)
  /\ Begin(t, [kind |-> "status", id_str |-> 0, action |-> ""], "snap", "none")

\* A worker calls clear_and_regenerate_state.
reset(t) ==
  /\ Ready(t)
  /\ Begin(t, [kind |-> "reset", id_str |-> 0, action |-> ""], "upd", "none")

\* ------------------------------------------------------------ StateManager
\* The position of a worker that has taken the lock it was waiting for.
Locked(p) ==
  CASE p = "upd" -> "upd_locked"
    [] p = "save" -> "save_locked"
    [] p = "snap" -> "snap_locked"
    [] p = "assert" -> "assert_locked"
    [] p = "release" -> "release_locked"

\* self.state.lock().unwrap(), in update_current_input,
\* update_hard_power_state, clear_and_regenerate_state, get_state and
\* save_state alike.
state_lock_no_wait(t) ==
  /\ pc[t] \in {"upd", "save", "snap"}
  /\ stLock' = stLock \cup {t}
  /\ pc' = [pc EXCEPT ![t] = Locked(pc[t])]
  /\ UNCHANGED <<state, file, devLock, req, result, snapshot, trace, changed, overtaken,
                 completedInputs, started, life, probe>>

state_lock(t) ==
  /\ pc[t] \in {"upd", "save", "snap"}
  /\ stLock = {}
  /\ stLock' = {t}
  /\ pc' = [pc EXCEPT ![t] = Locked(pc[t])]
  /\ UNCHANGED <<state, file, devLock, req, result, snapshot, trace, changed, overtaken,
                 completedInputs, started, life, probe>>

\* drop(state) in update_* and clear_and_regenerate_state: "Release lock
\* before file I/O".
held_into_save(holders, t) == holders
dropped_before_save(holders, t) == holders \ {t}

\* The in-memory half of an update: the change, then drop(state).
Mutated(t, new, ev) ==
  /\ state' = new
  /\ stLock' = dropped_before_save(stLock, t)
  /\ pc' = [pc EXCEPT ![t] = "save"]
  /\ trace' = [trace EXCEPT ![t] = Append(@, ev)]
  /\ changed' = [changed EXCEPT ![t] = @ \/ new # state]
  /\ overtaken' = [u \in Threads |->
                     overtaken[u] \/ (u # t /\ pc[u] \in {"save", "save_locked"})]
  /\ UNCHANGED <<file, devLock, req, result, snapshot, completedInputs, started, life, probe>>

update_current_input(t) ==
  /\ pc[t] = "upd_locked"
  /\ req[t].kind = "input"
  /\ Mutated(t, [state EXCEPT !.current_input = Some(IdOf(req[t]))],
             Event("record_input", IdOf(req[t]), 0))

update_hard_power_state(t) ==
  /\ pc[t] = "upd_locked"
  /\ req[t].kind = "hard"
  /\ LET id == IdOf(req[t])
         value == power_value(ActionOf(req[t]))
     IN  Mutated(t, [state EXCEPT !.hard_power_state = insert(@, id, value)],
                 Event("record_hard_power", id, value))

\* get_power_state: the stub that reports every instance off.
get_power_state_short == [id \in VALID_IDS \ {4} |-> 0]
get_power_state == [id \in VALID_IDS |-> 0]

clear_and_regenerate_state(t) ==
  /\ pc[t] = "upd_locked"
  /\ req[t].kind = "reset"
  /\ Mutated(t, [current_input |-> None, hard_power_state |-> get_power_state],
             Event("reset", 0, 0))

\* get_state after its lock: clone the State, unlock.
get_state(t) ==
  /\ pc[t] = "snap_locked"
  /\ snapshot' = [snapshot EXCEPT ![t] = Some(state)]
  /\ stLock' = stLock \ {t}
  /\ pc' = [pc EXCEPT ![t] = "done"]
  /\ result' = [result EXCEPT ![t] = "Ok"]
  /\ UNCHANGED <<state, file, devLock, req, trace, changed, overtaken,
                 completedInputs, started, life, probe>>

\* What save_state writes: the serialization of the State it has locked.
save_contents_patch(t) ==
  IF req[t].kind = "input"
    THEN [file EXCEPT !.current_input = to_string_pretty(state).current_input]
    ELSE [file EXCEPT !.hard_power_state = to_string_pretty(state).hard_power_state]
save_contents(t) == to_string_pretty(state)

\* The in-memory State an update_* leaves when its save_state fails: the
\* error goes up through `?`, the change made before it stays.
rolled_back_on_save_error(t) == from_str(file)
retained_on_save_error(t) == state

\* save_state after its lock: serialize, fs::write, unlock; then the caller
\* goes on (handle_input to its first write) or returns (handle_power_hard,
\* dropping the device guard the on and off arms still hold). A failed write
\* returns the error through update_* to the handler, which answers 500.
save_state(t) ==
  /\ pc[t] = "save_locked"
  /\ stLock' = stLock \ {t}
  /\ \E ok \in BOOLEAN :
       IF ok
         THEN /\ file' = save_contents(t)
              /\ trace' = [trace EXCEPT ![t] = Append(@, Event("persist", 0, 0))]
              /\ UNCHANGED <<state, failures>>
              /\ IF req[t].kind = "input"
                   THEN /\ pc' = [pc EXCEPT ![t] = "assert"]
                        /\ UNCHANGED <<result, devLock>>
                   ELSE /\ pc' = [pc EXCEPT ![t] = "done"]
                        /\ result' = [result EXCEPT ![t] = "Ok"]
                        /\ devLock' = devLock \ {t}
         ELSE /\ trace' = [trace EXCEPT ![t] = Append(@, Event("persist_failed", 0, 0))]
              /\ pc' = [pc EXCEPT ![t] = "done"]
              /\ result' = [result EXCEPT ![t] = "InternalError"]
              /\ devLock' = released_on_error_return(devLock, t)
              /\ state' = retained_on_save_error(t)
              /\ failures' = failures \cup {<<"persist", 0>>}
              /\ UNCHANGED file
  /\ UNCHANGED <<req, snapshot, changed, overtaken, completedInputs, started, life,
                 pins, lastAssert>>

\* ------------------------------------------------------------------ device
\* pcf8574.lock()
device_lock_no_wait(t) ==
  /\ pc[t] \in {"assert", "release"}
  /\ devLock' = devLock \cup {t}
  /\ pc' = [pc EXCEPT ![t] = Locked(pc[t])]
  /\ UNCHANGED <<state, file, stLock, req, result, snapshot, trace, changed, overtaken,
                 completedInputs, started, life, probe>>

device_lock_whole_pulse(t) ==
  /\ pc[t] \in {"assert", "release"}
  /\ devLock = {}
  /\ pc[t] = "assert" => \A u \in Threads \ {t} : pc[u] \notin {"hold", "release"}
  /\ devLock' = {t}
  /\ pc' = [pc EXCEPT ![t] = Locked(pc[t])]
  /\ UNCHANGED <<state, file, stLock, req, result, snapshot, trace, changed, overtaken,
                 completedInputs, started, life, probe>>

device_lock(t) ==
  /\ pc[t] \in {"assert", "release"}
  /\ devLock = {}
  /\ devLock' = {t}
  /\ pc' = [pc EXCEPT ![t] = Locked(pc[t])]
  /\ UNCHANGED <<state, file, stLock, req, result, snapshot, trace, changed, overtaken,
                 completedInputs, started, life, probe>>

\* handle_input checks the pin only once it holds the device: a pin above 7
\* answers 500 and the guard is dropped by the return.
input_pin_check(t) ==
  /\ pc[t] = "assert_locked"
  /\ req[t].kind = "input"
  /\ PinConfigOf(req[t]).pin > 7
  /\ pc' = [pc EXCEPT ![t] = "done"]
  /\ result' = [result EXCEPT ![t] = "InvalidPin"]
  /\ devLock' = released_on_error_return(devLock, t)
  /\ UNCHANGED <<state, file, stLock, req, snapshot, trace, changed, overtaken,
                 completedInputs, started, life, probe>>

\* The expander's outputs after set_high / set_low on a pin returned Ok.
written(outputs, pin, level) ==
  {e \in outputs : e[1] # pin} \cup {<<pin, level>>}

\* One set_high / set_low under the guard. On Ok the handler goes on: to the
\* sleep (handle_input, toggle: the guard's block ends), to the state update
\* (on, off: the guard stays; toggle after its second write) or to its
\* response (handle_input after its second write). On Err it answers 500.
set_pin(t) ==
  /\ pc[t] \in {"assert_locked", "release_locked"}
  /\ PinConfigOf(req[t]).pin <= 7
  /\ LET r == req[t]
         pin == PinConfigOf(r).pin
         first == pc[t] = "assert_locked"
         level == IF first THEN first_level(r) ELSE second_level(r)
     IN  \E ok \in BOOLEAN :
           IF ok
             THEN /\ trace' = [trace EXCEPT ![t] = Append(@, Event("write", pin, level))]
                  /\ pins' = written(pins, pin, level)
                  /\ lastAssert' = IF first /\ r.kind = "input" THEN Some(IdOf(r))
                                   ELSE lastAssert
                  /\ UNCHANGED failures
                  /\ devLock' = IF guard_scoped_to_write(r) THEN devLock \ {t} ELSE devLock
                  /\ IF first
                       THEN /\ pc' = [pc EXCEPT ![t] = IF is_pulse(r) THEN "hold" ELSE "upd"]
                            /\ UNCHANGED <<result, completedInputs>>
                       ELSE IF r.kind = "input"
                         THEN /\ pc' = [pc EXCEPT ![t] = "done"]
                              /\ result' = [result EXCEPT ![t] = "Ok"]
                              /\ completedInputs' = completedInputs \cup {IdOf(r)}
                         ELSE /\ pc' = [pc EXCEPT ![t] = "upd"]
                              /\ UNCHANGED <<result, completedInputs>>
             ELSE /\ trace' = [trace EXCEPT ![t] = Append(@, Event("write_failed", pin, level))]
                  /\ devLock' = released_on_error_return(devLock, t)
                  /\ pc' = [pc EXCEPT ![t] = return_after_write_error(pc[t])]
                  /\ result' = [result EXCEPT ![t] = "InternalError"]
                  /\ failures' = failures \cup {<<IF first THEN "assert" ELSE "release", pin>>}
                  /\ UNCHANGED <<completedInputs, pins, lastAssert>>
  /\ UNCHANGED <<state, file, stLock, req, snapshot, changed, overtaken, started, life>>

\* thread::sleep between the two writes of a pulse.
sleep(t) ==
  /\ pc[t] = "hold"
  /\ pc' = [pc EXCEPT ![t] = "release"]
  /\ trace' = [trace EXCEPT ![t] = Append(@, Event("hold", 0, 0))]
  /\ UNCHANGED <<state, file, stLock, devLock, req, result, snapshot, changed, overtaken,
                 completedInputs, started, life, probe>>

Step(t) ==
    \/ handle_input(t)
    \/ handle_power_soft(t)
    \/ handle_power_hard(t)
    \/ status(t)
    \/ reset(t)
    \/ clear_and_regenerate_state(t)
    \/ get_state(t)
    \/ state_lock(t)
    \/ update_current_input(t)
    \/ update_hard_power_state(t)
    \/ save_state(t)
    \/ device_lock(t)
    \/ input_pin_check(t)
    \/ set_pin(t)
    \/ sleep(t)

Next == \E t \in Threads : Step(t)

Spec == Init /\ [][Next]_vars

\* ------------------------------------------------------------ fair schedule
\* What a worker does once it has a request, other than taking a lock.
Continue(t) ==
    \/ clear_and_regenerate_state(t)
    \/ get_state(t)
    \/ update_current_input(t)
    \/ update_hard_power_state(t)
    \/ save_state(t)
    \/ input_pin_check(t)
    \/ set_pin(t)
    \/ sleep(t)

\* Every worker that can go on does so, and a worker waiting for a Mutex
\* that is free again and again gets it. Requests arrive or not.
Fairness ==
  \A t \in Threads :
    /\ WF_vars(Continue(t))
    /\ SF_vars(state_lock(t))
    /\ SF_vars(device_lock(t))

SpecFair == Init /\ [][Next]_vars /\ Fairness

\* ------------------------------------------------------- start of the process
\* The numerals that occur in the files considered.
Numerals == {"1", "2", "3", "4"}

\* Whether serde_json::from_str::<State> gives Ok: current_input is null or
\* a u8, hard_power_state an object whose keys and values are u8.
parses(contents) ==
  /\ contents.current_input \in {"null"} \cup Numerals
  /\ \A e \in contents.hard_power_state : e[1] \in Numerals /\ e[2] \in 0..255

\* What the first start may find at storage_path: files this program wrote,
\* files with fewer entries (hard_power_state is #[serde(default)]) and files
\* that are not a State.
StoredFiles ==
  { to_string_pretty(State_default),
    [current_input |-> "2",
     hard_power_state |-> {<<"1", 0>>, <<"2", 0>>, <<"3", 1>>, <<"4", 0>>}],
    [current_input |-> "null", hard_power_state |-> {<<"1", 1>>}],
    [current_input |-> "1", hard_power_state |-> {}],
    [current_input |-> "abc",
     hard_power_state |-> {<<"1", 0>>, <<"2", 0>>, <<"3", 0>>, <<"4", 0>>}],
    [current_input |-> "null", hard_power_state |-> {<<"1", 256>>}] }

\* Placeholders for what does not exist: the State of a process that is not
\* serving, the content of a missing file.
NoState == [current_input |-> None, hard_power_state |-> <<>>]
NoContent == [current_input |-> "", hard_power_state |-> {}]

InitBoot ==
  /\ state = NoState
  /\ fileExists \in BOOLEAN
  /\ file \in IF fileExists THEN StoredFiles ELSE {NoContent}
  /\ origin = IF fileExists THEN Some(file) ELSE None
  /\ proc = "down"
  /\ boots = 0
  /\ stLock = {}
  /\ devLock = {}
  /\ pc = [t \in Threads |-> "idle"]
  /\ req = [t \in Threads |-> NoRequest]
  /\ result = [t \in Threads |-> "none"]
  /\ snapshot = [t \in Threads |-> None]
  /\ trace = [t \in Threads |-> <<>>]
  /\ changed = [t \in Threads |-> FALSE]
  /\ overtaken = [t \in Threads |-> FALSE]
  /\ completedInputs = {}
  /\ started = 0
  /\ pins = {}
  /\ lastAssert = None
  /\ failures = {}

\* main calls StateManager::new, which calls load_state.
Starting == proc = "down" /\ boots < MaxBoots

Booted(p, st, exists, contents) ==
  /\ proc' = p
  /\ state' = st
  /\ fileExists' = exists
  /\ file' = contents
  /\ boots' = boots + 1
  /\ UNCHANGED <<stLock, devLock, pc, req, result, snapshot, trace, changed, overtaken,
                 completedInputs, started, origin, probe>>

\* load_state, the file exists and is a State: that State, as it is read.
load_existing ==
  /\ Starting
  /\ fileExists /\ parses(file)
  /\ Booted("up", from_str(file), TRUE, file)

\* load_state, the file exists and is not a State: from_str's Err goes up
\* through StateManager::new to main, which returns it.
load_unparsable_falls_back ==
  /\ Starting
  /\ fileExists /\ ~parses(file)
  /\ Booted("up", State_default, TRUE, to_string_pretty(State_default))

load_unparsable ==
  /\ Starting
  /\ fileExists /\ ~parses(file)
  /\ Booted("aborted", state, TRUE, file)

\* load_state, no file: the default State, written out (create_dir_all or
\* fs::write may fail, which ends main as well).
load_absent_no_write ==
  /\ Starting
  /\ ~fileExists
  /\ Booted("up", State_default, FALSE, file)

load_absent ==
  /\ Starting
  /\ ~fileExists
  /\ \E ok \in BOOLEAN :
       IF ok THEN Booted("up", State_default, TRUE, to_string_pretty(State_default))
       ELSE Booted("aborted", state, FALSE, file)

\* The process ends (the server loop ends or the process is killed): what
\* it held in memory is gone, the file stays.
stop ==
  /\ proc = "up"
  /\ proc' = "down"
  /\ state' = NoState
  /\ stLock' = {}
  /\ devLock' = {}
  /\ pc' = [t \in Threads |-> "idle"]
  /\ req' = [t \in Threads |-> NoRequest]
  /\ result' = [t \in Threads |-> "none"]
  /\ snapshot' = [t \in Threads |-> None]
  /\ trace' = [t \in Threads |-> <<>>]
  /\ changed' = [t \in Threads |-> FALSE]
  /\ overtaken' = [t \in Threads |-> FALSE]
  /\ UNCHANGED <<file, fileExists, boots, origin, completedInputs, started, probe>>

\* Requests are handled one at a time, as main's loop does.
BootWorkers == {1}

NextBoot ==
  \/ load_existing
  \/ load_unparsable
  \/ load_absent
  \/ stop
  \/ \E t \in BootWorkers : Step(t)

SpecBoot == InitBoot /\ [][NextBoot]_vars

\* ================================================================== claims
LockedForWrite(t) == pc[t] \in {"assert_locked", "release_locked"}
Finished(t) == pc[t] = "done" /\ req[t].kind # "none"
HasEvent(t, op) == \E i \in 1..Len(trace[t]) : trace[t][i][1] = op
IsOp(e) == e[1] \notin {"persist", "persist_failed"}
\* What a request did to the device and asked of the StateManager, in order.
Steps(t) == SelectSeq(trace[t], IsOp)
\* The request's first physical write failed.
AssertFailed(t) == HasEvent(t, "write_failed") /\ ~HasEvent(t, "write")

\* C1: when the first physical write of select_input or of a hard-power on,
\* off or toggle fails, the request ends in an error and has not changed the
\* record that snapshot returns.
C1_AssertFailureLeavesRecord ==
  \A t \in Threads :
    (Finished(t) /\ req[t].kind \in {"input", "hard"} /\ AssertFailed(t))
      => (result[t] = "InternalError" /\ ~changed[t])

\* C2: the record reflects only completed actions: current_input is None or
\* the id of a selection both of whose writes succeeded, and a request has
\* changed the record only if all its physical writes succeeded.
C2_RecordReflectsCompletedActions ==
  /\ state.current_input # None => state.current_input[1] \in completedInputs
  /\ \A t \in Threads :
       (changed[t] /\ req[t].kind = "hard")
         => /\ ~HasEvent(t, "write_failed")
            /\ Len(SelectSeq(trace[t], LAMBDA e : e[1] = "write"))
                 = IF to_lowercase(req[t].action) = "toggle" THEN 2 ELSE 1

\* C3: a successful select_input writes the asserted level to the id's pin,
\* holds, writes the inverse level to the same pin and then calls
\* record_input(id) once, in this order.
C3_InputPulseThenRecord ==
  \A t \in Threads :
    (Finished(t) /\ req[t].kind = "input" /\ result[t] = "Ok")
      => LET id == req[t].id_str
             cfg == input_config[id]
         IN  Steps(t) = << <<"write", cfg.pin, cfg.pushed_state>>,
                           <<"hold", 0, 0>>,
                           <<"write", cfg.pin, 1 - cfg.pushed_state>>,
                           <<"record_input", id, 0>> >>

\* C4: a request whose id is outside {1,2,3,4} is rejected with InvalidId by
\* every entry point (an unrecognised hard-power action is turned down as
\* such before the id is looked at), has issued no physical write and has
\* changed neither the in-memory record nor the file.
C4_InvalidIdRejected ==
  \A t \in Threads :
    (req[t].kind \in {"input", "soft", "hard"} /\ req[t].id_str \notin {1, 2, 3, 4})
      => /\ pc[t] = "done"
         /\ result[t] = IF req[t].kind = "hard" /\ req[t].action = "reboot"
                          THEN "InvalidAction" ELSE "InvalidId"
         /\ trace[t] = <<>>
         /\ ~changed[t]

C4_Witness ==
  /\ state # State_default
  /\ \E t \in Threads :
       /\ Finished(t) /\ req[t].kind = "hard" /\ req[t].action = "toggle"
       /\ req[t].id_str = 256 /\ result[t] = "InvalidId"

\* C5: at most one request is at a physical write at any time, and a request
\* at a physical write holds the device lock.
C5_WritesUnderDeviceLock ==
  /\ Cardinality(devLock) <= 1
  /\ Cardinality({t \in Threads : LockedForWrite(t)}) <= 1
  /\ \A t \in Threads : LockedForWrite(t) => t \in devLock

C5_Witness ==
  \E t, u \in Threads :
    /\ t # u /\ LockedForWrite(t) /\ pc[t] = "release_locked"
    /\ pc[u] \in {"assert", "release"}

\* C6: a request in its hold (the sleep between the two writes of a pulse)
\* does not hold the device lock.
C6_HoldWithoutDeviceLock ==
  \A t \in Threads : pc[t] = "hold" => t \notin devLock

C6_Witness ==
  \E t, u \in Threads :
    /\ pc[t] = "hold" /\ req[t].kind = "hard"
    /\ u # t /\ u \in devLock /\ pc[u] = "assert_locked"

\* C7: the device lock is held only around one physical write: a request
\* that holds it is at a write, not in a hold, a state update or a file write.
C7_DeviceLockOnlyAroundWrite ==
  \A t \in Threads : t \in devLock => LockedForWrite(t)

\* The step appends a successful file write to t's trace.
Persists(t) ==
  /\ Len(trace'[t]) = Len(trace[t]) + 1
  /\ trace'[t][Len(trace'[t])][1] = "persist"

\* The change t's request recorded is in the record r.
OwnChangeIn(t, r) ==
  CASE req[t].kind = "input" -> r.current_input = <<req[t].id_str>>
    [] req[t].kind = "hard" ->
         r.hard_power_state[req[t].id_str] = (IF req[t].action = "OFF" THEN 0 ELSE 1)
    [] req[t].kind = "reset" ->
         r = [current_input |-> <<>>, hard_power_state |-> <<0, 0, 0, 0>>]

\* C8 as stated: a mutation holds the store's exclusion from its in-memory
\* change to the end of its file write, and no other mutation falls between
\* the two.
C8_ExclusionSpansMutationAndPersist ==
  \A t \in Threads :
    /\ pc[t] \in {"save", "save_locked"} => t \in stLock
    /\ ~overtaken[t]

\* C8 as amended: a mutation holds the store's exclusion during its in-memory
\* change and, having released and taken it again, during its file write; what
\* the file write stores is the in-memory record of that moment, which holds
\* the mutation's own change whenever no other mutation fell in between.
C8_ExclusionPerHalf ==
  /\ [](/\ Cardinality(stLock) <= 1
        /\ \A t \in Threads :
             pc[t] \in {"upd_locked", "save_locked", "snap_locked"} <=> t \in stLock)
  /\ [][\A t \in Threads :
          /\ state' # state /\ pc[t] # pc'[t] => stLock = {t}
          /\ Persists(t) => /\ stLock = {t}
                            /\ from_str(file') = state
                            /\ ~overtaken[t] => OwnChangeIn(t, from_str(file'))]_vars

C8_Witness ==
  \E t, u \in Threads :
    /\ t # u
    /\ overtaken[t] /\ HasEvent(t, "persist") /\ req[t].kind = "input"
    /\ req[u].kind = "input" /\ req[u].id_str # req[t].id_str
    /\ HasEvent(u, "persist") /\ ~overtaken[u]
    /\ ~OwnChangeIn(t, from_str(file))

\* C9: whatever a file write stores is the whole in-memory record as it
\* stands at the write: read back, the file gives that record, field by field.
C9_FileIsOneRecord ==
  [][file' # file =>
       /\ from_str(file').current_input = state.current_input
       /\ DOMAIN from_str(file').hard_power_state = DOMAIN state.hard_power_state
       /\ \A id \in DOMAIN state.hard_power_state :
            from_str(file').hard_power_state[id] = state.hard_power_state[id]]_vars

C9_Witness ==
  \E t, u \in Threads :
    /\ t # u /\ overtaken[t]
    /\ HasEvent(t, "persist") /\ HasEvent(u, "persist")
    /\ req[t].kind = "input" /\ req[u].kind = "hard"
    /\ from_str(file) = state /\ state.current_input # None
    /\ \E id \in VALID_IDS : state.hard_power_state[id] = 1

\* C10: a successful hard-power on (off) performs one physical write, of the
\* asserted level (of its inverse), no hold and no second write, and then one
\* record_hard_power(id, 1) (respectively 0), which is persisted.
C10_HardOnOffOneWriteOneRecord ==
  \A t \in Threads :
    (Finished(t) /\ req[t].kind = "hard" /\ result[t] = "Ok"
       /\ req[t].action \in {"on", "OFF"})
      => LET id == req[t].id_str
             cfg == power_hard_config[id]
             on == req[t].action = "on"
         IN  trace[t] = << <<"write", cfg.pin, IF on THEN cfg.on_state ELSE 1 - cfg.on_state>>,
                           <<"record_hard_power", id, IF on THEN 1 ELSE 0>>,
                           <<"persist", 0, 0>> >>

C10_Witness ==
  /\ \E t \in Threads :
       /\ Finished(t) /\ req[t] = [kind |-> "hard", id_str |-> 2, action |-> "OFF"]
       /\ result[t] = "Ok"
  /\ \E t \in Threads :
       /\ Finished(t) /\ req[t] = [kind |-> "hard", id_str |-> 1, action |-> "on"]
       /\ result[t] = "Ok"

\* C11: a successful hard-power toggle performs two physical writes on the
\* id's pin, the inverse of the asserted level and, after the hold, the
\* asserted level, and then one record_hard_power(id, 1), which is persisted.
C11_TogglePulseThenRecord ==
  \A t \in Threads :
    (Finished(t) /\ req[t].kind = "hard" /\ result[t] = "Ok"
       /\ to_lowercase(req[t].action) = "toggle")
      => LET id == req[t].id_str
             cfg == power_hard_config[id]
         IN  trace[t] = << <<"write", cfg.pin, 1 - cfg.on_state>>,
                           <<"hold", 0, 0>>,
                           <<"write", cfg.pin, cfg.on_state>>,
                           <<"record_hard_power", id, 1>>,
                           <<"persist", 0, 0>> >>

C11_Witness ==
  \E t, u \in Threads :
    /\ t # u
    /\ Finished(t) /\ req[t] = [kind |-> "hard", id_str |-> 2, action |-> "toggle"]
    /\ result[t] = "Ok" /\ state.hard_power_state[2] = 1
    /\ Finished(u) /\ req[u] = [kind |-> "hard", id_str |-> 1, action |-> "toggle"]
    /\ result[u] = "Ok"

\* The pin mapping a handler is given for the kind of a request.
ConfigOfKind(kind) ==
  CASE kind = "input" -> input_config
    [] kind = "soft" -> power_soft_config
    [] kind = "hard" -> power_hard_config

\* The request names a valid id (and, for hard power, a valid action) that
\* the mapping of its kind does not hold.
Unconfigured(r) ==
  /\ r.kind \in {"input", "soft", "hard"}
  /\ r.kind = "hard" => is_valid_action(to_lowercase(r.action))
  /\ r.id_str \in VALID_IDS
  /\ r.id_str \notin DOMAIN ConfigOfKind(r.kind)

\* C12: a request of any kind (input, soft power, hard power) for a valid id
\* that the mapping of that kind does not hold is rejected with
\* UnconfiguredId and has issued no physical write.
C12_UnconfiguredRejected ==
  \A t \in Threads :
    Unconfigured(req[t])
      => /\ pc[t] = "done"
         /\ result[t] = "UnconfiguredId"
         /\ ~HasEvent(t, "write") /\ ~HasEvent(t, "write_failed")

\* C13: a select_input or hard-power request turned down because the mapping
\* does not hold its valid id has recorded nothing and written no file: the
\* in-memory record and the file are what they were when it arrived.
C13_UnconfiguredLeavesRecord ==
  /\ [](\A t \in Threads :
          (Unconfigured(req[t]) /\ req[t].kind \in {"input", "hard"})
            => /\ pc[t] = "done" /\ result[t] = "UnconfiguredId"
               /\ trace[t] = <<>> /\ ~changed[t])
  /\ [][\A t \in Threads :
          (/\ started' # started /\ pc[t] \in {"idle", "done"}
           /\ \A u \in Threads \ {t} : req'[u] = req[u] /\ pc'[u] = pc[u]
           /\ Unconfigured(req'[t]) /\ req'[t].kind \in {"input", "hard"})
            => state' = state /\ file' = file]_vars

C13_Witness ==
  \E t, u \in Threads :
    /\ t # u
    /\ Finished(t) /\ req[t].kind \in {"input", "hard"} /\ Unconfigured(req[t])
    /\ result[t] = "UnconfiguredId"
    /\ Finished(u) /\ changed[u] /\ req[u].kind = req[t].kind
    /\ state # State_default /\ file = to_string_pretty(state)

\* The request names a valid id (and, for hard power, a valid action) whose
\* mapped pin the expander does not have.
PinOutOfRange(r) ==
  /\ r.kind \in {"input", "hard"}
  /\ r.kind = "hard" => is_valid_action(to_lowercase(r.action))
  /\ r.id_str \in VALID_IDS
  /\ r.id_str \in DOMAIN ConfigOfKind(r.kind)
  /\ ConfigOfKind(r.kind)[r.id_str].pin > 7

\* C14: a select_input or hard-power request whose mapped pin is above 7 ends
\* in an internal error, has issued no physical write and has changed neither
\* the in-memory record nor the file.
C14_PinOutOfRangeNoEffect ==
  \A t \in Threads :
    (Finished(t) /\ PinOutOfRange(req[t]))
      => /\ result[t] \in {"InvalidPin", "InternalError"}
         /\ ~HasEvent(t, "write") /\ ~HasEvent(t, "write_failed")
         /\ ~changed[t]
         /\ ~HasEvent(t, "persist")

\* The step appends a failed file write to t's trace.
PersistFails(t) ==
  /\ Len(trace'[t]) = Len(trace[t]) + 1
  /\ trace'[t][Len(trace'[t])][1] = "persist_failed"

\* C15: when the file write of a mutation fails, the request ends with an
\* internal error, the in-memory record keeps the mutation (it is what a
\* snapshot returns from then on) and the file keeps its old content.
C15_PersistFailureKeepsMutation ==
  [][\A t \in Threads :
       PersistFails(t)
         => /\ pc'[t] = "done" /\ result'[t] = "InternalError"
            /\ state' = state
            /\ ~overtaken[t] => OwnChangeIn(t, state')
            /\ file' = file]_vars

C15_Witness ==
  \E t, u \in Threads :
    /\ t # u
    /\ Finished(t) /\ HasEvent(t, "persist_failed") /\ changed[t]
    /\ result[t] = "InternalError"
    /\ Finished(u) /\ req[u].kind = "status" /\ snapshot[u] = Some(state)
    /\ OwnChangeIn(t, snapshot[u][1])
    /\ ~OwnChangeIn(t, from_str(file))

\* The step appends the event op to t's trace.
Records(t, op) ==
  /\ Len(trace'[t]) = Len(trace[t]) + 1
  /\ trace'[t][Len(trace'[t])][1] = op

\* C16: record_hard_power(id, on) sets the hard_power entry of id to on and
\* leaves current_input and every other entry; record_input(id) sets
\* current_input to id and leaves every hard_power entry. So an entry is what
\* the last record_hard_power for its id made it: off after (id, on), (id, off).
C16_MutationsChangeOneField ==
  [][\A t \in Threads :
       LET e == trace'[t][Len(trace'[t])]
       IN  /\ Records(t, "record_hard_power")
               => /\ state'.current_input = state.current_input
                  /\ DOMAIN state'.hard_power_state = DOMAIN state.hard_power_state \cup {e[2]}
                  /\ state'.hard_power_state[e[2]] = e[3]
                  /\ e[3] = IF req[t].action = "OFF" THEN 0 ELSE 1
                  /\ \A k \in DOMAIN state.hard_power_state \ {e[2]} :
                       state'.hard_power_state[k] = state.hard_power_state[k]
           /\ Records(t, "record_input")
               => /\ state'.current_input = Some(e[2])
                  /\ state'.hard_power_state = state.hard_power_state]_vars

C16_Witness ==
  \E t, u \in Threads :
    /\ t # u
    /\ req[t] = [kind |-> "hard", id_str |-> 2, action |-> "on"]
    /\ req[u] = [kind |-> "hard", id_str |-> 2, action |-> "OFF"]
    /\ Finished(t) /\ Finished(u) /\ changed[t] /\ changed[u]
    /\ state.hard_power_state = [id \in VALID_IDS |-> 0]

\* The record of a store just started on an empty path, spelled out.
DefaultRecord ==
  [current_input |-> <<>>, hard_power_state |-> (1 :> 0) @@ (2 :> 0) @@ (3 :> 0) @@ (4 :> 0)]

\* C17: reset makes the in-memory record the default one (no current input,
\* ids 1-4 off) whatever it was, and the file write that ends it stores that
\* record unless another mutation changed it in between: the record and the
\* file then both are the default record.
C17_ResetRestoresDefault ==
  [][\A t \in Threads :
       /\ Records(t, "reset") => state' = DefaultRecord
       /\ (Persists(t) /\ req[t].kind = "reset" /\ ~overtaken[t])
            => /\ state' = DefaultRecord
               /\ from_str(file') = DefaultRecord
               /\ pc'[t] = "done" /\ result'[t] = "Ok"]_vars

C17_Witness ==
  \E t, u \in Threads :
    /\ t # u
    /\ Finished(t) /\ req[t].kind = "reset" /\ result[t] = "Ok" /\ changed[t]
    /\ ~overtaken[t]
    /\ Finished(u) /\ req[u].kind \in {"input", "hard"} /\ HasEvent(u, "persist")
    /\ state = DefaultRecord /\ from_str(file) = DefaultRecord

\* The file of a store just started on an empty path, spelled out.
DefaultFile ==
  [current_input |-> "null",
   hard_power_state |-> {<<"1", 0>>, <<"2", 0>>, <<"3", 0>>, <<"4", 0>>}]

\* The step is a call of StateManager::new.
Loads == boots' = boots + 1

\* C18: StateManager::new on a path with no file creates the file with the
\* default record (no current input, ids 1-4 off) and returns that record;
\* called again on the file it created, it returns the same record and leaves
\* the file as it is.
C18_LoadOrInitIdempotent ==
  [][Loads =>
       /\ (~fileExists /\ proc' = "up")
            => /\ fileExists' /\ file' = DefaultFile
               /\ state' = DefaultRecord
       /\ (fileExists /\ file = DefaultFile)
            => /\ proc' = "up" /\ state' = DefaultRecord
               /\ fileExists' /\ file' = file]_vars

C18_Witness ==
  /\ origin = None /\ boots = 2 /\ started = 0
  /\ proc = "up" /\ state = DefaultRecord
  /\ fileExists /\ file = DefaultFile

\* C19: StateManager::new on a file that is not a State fails, main returns
\* the error and serves no request; the file stays as it is, it is not
\* replaced by the default record.
C19_UnparsableFileAbortsStartup ==
  /\ [][(Loads /\ fileExists /\ ~parses(file))
          => /\ proc' = "aborted"
             /\ fileExists' /\ file' = file]_vars
  /\ [](proc = "aborted"
          => /\ started = 0 /\ \A t \in Threads : pc[t] = "idle"
             /\ (origin # None => fileExists /\ file = origin[1]))
  /\ [][proc = "aborted" => proc' = "aborted"]_vars

C19_Witness ==
  /\ proc = "aborted" /\ boots = 1
  /\ fileExists /\ ~parses(file) /\ file.current_input = "null"

\* C20 as stated: once the store is initialized, by default construction or
\* from an existing file, and after any operations, hard_power_state has an
\* entry for each of ids 1-4, and an id without entry is reported off.
C20_EveryIdHasEntry ==
  proc = "up"
    => /\ VALID_IDS \subseteq DOMAIN state.hard_power_state
       /\ \A id \in VALID_IDS \ DOMAIN state.hard_power_state :
            StatusResponse_from(state).hard_power[key_to_string(id)] = "off"

\* The ids for which the file the first start found had an entry.
OriginIds ==
  IF origin = None THEN VALID_IDS
  ELSE { string_to_key(e[1]) : e \in origin[1].hard_power_state }

\* C20 as amended: a store that started on a path with no file has an entry
\* for each of ids 1-4 ever after; a store loaded from a file has the entries
\* of that file and those recorded since, which may be fewer; the status
\* reports an entry for each of ids 1-4, off for an id the store has no entry
\* for and on exactly for the entries that are 1.
C20_MissingEntriesReadOff ==
  proc = "up"
    => /\ origin = None => DOMAIN state.hard_power_state = VALID_IDS
       /\ OriginIds \subseteq DOMAIN state.hard_power_state
       /\ DOMAIN state.hard_power_state \subseteq VALID_IDS
       /\ DOMAIN StatusResponse_from(state).hard_power = {"1", "2", "3", "4"}
       /\ \A id \in VALID_IDS :
            StatusResponse_from(state).hard_power[key_to_string(id)] =
              IF id \in DOMAIN state.hard_power_state /\ state.hard_power_state[id] = 1
                THEN "on" ELSE "off"

C20_Witness ==
  /\ proc = "up" /\ started > 0
  /\ origin = Some([current_input |-> "1", hard_power_state |-> {}])
  /\ DOMAIN state.hard_power_state = {2}
  /\ StatusResponse_from(state).hard_power["2"] = "on"
  /\ StatusResponse_from(state).hard_power["1"] = "off"
  /\ file = to_string_pretty(state)

\* C21: a soft-power request for a valid id is answered with success at
\* once: it has written nothing to the device, has not slept, holds neither
\* lock (it never asks for one) and has recorded and persisted nothing; the
\* step that takes it leaves the in-memory record and the file.
C21_SoftPowerIsNoOp ==
  /\ [](\A t \in Threads :
          (req[t].kind = "soft" /\ req[t].id_str \in VALID_IDS)
            => /\ pc[t] = "done" /\ result[t] = "Ok"
               /\ trace[t] = <<>> /\ ~changed[t]
               /\ t \notin devLock /\ t \notin stLock)
  /\ [][\A t \in Threads :
          (/\ started' # started /\ pc[t] \in {"idle", "done"}
           /\ \A u \in Threads \ {t} : req'[u] = req[u] /\ pc'[u] = pc[u]
           /\ req'[t].kind = "soft")
            => state' = state /\ file' = file /\ devLock' = devLock /\ stLock' = stLock]_vars

C21_Witness ==
  \E t, u \in Threads :
    /\ t # u
    /\ Finished(t) /\ req[t].kind = "soft" /\ req[t].id_str = 4 /\ result[t] = "Ok"
    /\ Finished(u) /\ req[u].kind = "hard" /\ changed[u]
    /\ state # State_default /\ from_str(file) = state

\* The request ended in an error response.
EndedInError(t) == Finished(t) /\ result[t] # "Ok"

\* C22: a request that has ended in an error (invalid id, unconfigured id,
\* invalid pin, failed device write, failed file write) holds neither the
\* device lock nor the StateManager's lock, and a worker is free to take the
\* next request: the locks it used are there for the requests that follow.
C22_ErrorsReleaseLocks ==
  \A t \in Threads :
    EndedInError(t)
      => /\ t \notin devLock /\ t \notin stLock
         /\ result[t] \in {"InvalidId", "UnconfiguredId", "InvalidPin",
                           "InvalidAction", "InternalError"}
         /\ started < MaxRequests => ENABLED handle_power_hard(t)

\* A hard-power on for id 1 failed at its file write, under the device guard
\* it held from its write on; the on for id 2 whose file write stored both
\* entries took the device and the store after it and succeeded.
C22_Witness ==
  \E t, u \in Threads :
    /\ t # u
    /\ req[t] = [kind |-> "hard", id_str |-> 1, action |-> "on"]
    /\ EndedInError(t) /\ HasEvent(t, "persist_failed")
    /\ req[u] = [kind |-> "hard", id_str |-> 2, action |-> "on"]
    /\ Finished(u) /\ result[u] = "Ok"
    /\ from_str(file).hard_power_state = (1 :> 1) @@ (2 :> 1) @@ (3 :> 0) @@ (4 :> 0)

\* The physical writes of t's request, successful or not, in order.
IsWrite(e) == e[1] \in {"write", "write_failed"}
Writes(t) == SelectSeq(trace[t], IsWrite)

\* C23: a request whose physical write failed does nothing after it: the
\* failed write is the last thing in its trace (no second attempt, no release
\* write, no record_input or record_hard_power, no file write) and the request
\* is finished with an internal error. No request makes more than its two
\* writes (one for hard-power on and off), the second one after its hold.
C23_NoStepAfterWriteFailure ==
  \A t \in Threads :
    /\ \A i \in 1..Len(trace[t]) :
         trace[t][i][1] = "write_failed"
           => /\ i = Len(trace[t])
              /\ pc[t] = "done" /\ result[t] = "InternalError"
    /\ Len(Writes(t)) <= IF req[t].kind = "input" \/ req[t].action = "toggle" THEN 2 ELSE 1
    /\ Len(Writes(t)) = 2
         => /\ Writes(t)[1][1] = "write"
            /\ Writes(t)[1][2] = Writes(t)[2][2]
            /\ Writes(t)[1][3] # Writes(t)[2][3]
            /\ HasEvent(t, "hold")

C23_Witness ==
  \E t, u \in Threads :
    /\ t # u
    /\ Finished(t) /\ req[t].kind = "hard" /\ req[t].action = "toggle"
    /\ Len(trace[t]) = 3 /\ trace[t][3][1] = "write_failed"
    /\ Finished(u) /\ req[u].kind = "hard" /\ req[u].action = "OFF"
    /\ Len(trace[u]) = 1 /\ trace[u][1][1] = "write_failed"

\* The request of t is under way: taken and not yet answered.
InFlight(t) == pc[t] \notin {"idle", "done"}

\* C24: under a fair schedule every request under way is answered in the
\* end, with success or an error, whatever the other workers do: none waits
\* for ever for the device or for the StateManager's lock.
C24_EveryActuationEnds ==
  \A t \in Threads : InFlight(t) ~> pc[t] = "done"

\* A worker waits for the device while another holds it through its state
\* update, and a third party to the store's lock is there too.
C24_Witness ==
  \E t, u \in Threads :
    /\ t # u
    /\ pc[t] = "release" /\ req[t].kind = "hard"
    /\ u \in devLock /\ pc[u] = "save_locked"

\* The request of t is between its assert write and its release write.
MidPulse(t) ==
  /\ pc[t] \in {"hold", "release"}
  /\ Len(Writes(t)) = 1 /\ Writes(t)[1][1] = "write"

\* C25: the pulses of two requests may interleave. While a request is
\* between its assert write and its release write it does not hold the
\* device, so another request that asks for the device when it is free gets
\* it, and one that holds it can make its write.
C25_PulsesMayInterleave ==
  \A t, u \in Threads :
    (t # u /\ MidPulse(t))
      => /\ (pc[u] \in {"assert", "release"} /\ devLock = {}) => ENABLED device_lock(u)
         /\ (pc[u] \in {"assert_locked", "release_locked"} /\ PinConfigOf(req[u]).pin <= 7)
              => (u \in devLock /\ ENABLED set_pin(u))

\* A select_input for id 1 is between its two writes; a hard-power on for
\* id 2, which holds the device from before its write to its end, has made
\* its write since.
C25_Witness ==
  \E t, u \in Threads :
    /\ t # u
    /\ MidPulse(t) /\ req[t] = [kind |-> "input", id_str |-> 1, action |-> ""]
    /\ req[u] = [kind |-> "hard", id_str |-> 2, action |-> "on"]
    /\ pc[u] = "upd" /\ u \in devLock
    /\ trace[u] = << <<"write", 5, 0>> >>

\* C26: a worker asks for the device and takes it only while it does not
\* hold the StateManager's lock; it holds both only having taken the device
\* first (the on and off arms of hard power, during their state update). No
\* state is a deadlock: while a request is under way some worker can step.
C26_DeviceBeforeStoreLock ==
  /\ [](/\ \A t \in Threads :
             /\ pc[t] \in {"assert", "release"} => t \notin stLock
             /\ (t \in stLock /\ t \in devLock)
                  => /\ pc[t] \in {"upd_locked", "save_locked"}
                     /\ req[t].kind = "hard" /\ req[t].action \in {"on", "OFF"}
        /\ (\E t \in Threads : InFlight(t))
             => \E t \in Threads :
                  ENABLED Continue(t) \/ ENABLED state_lock(t) \/ ENABLED device_lock(t))
  /\ [][\A t \in Threads :
          /\ (t \notin devLock /\ t \in devLock') => (t \notin stLock /\ t \notin stLock')
          /\ (t \notin stLock /\ t \in stLock' /\ t \in devLock) => t \in devLock']_vars

C26_Witness ==
  \E t, u \in Threads :
    /\ t # u
    /\ t \in devLock /\ t \in stLock /\ pc[t] = "save_locked"
    /\ pc[u] = "assert" /\ req[u].kind = "input" /\ HasEvent(u, "persist")

\* A mutation of t is between its in-memory change and the end of its file
\* write.
Mutating(t) == pc[t] \in {"save", "save_locked"}

\* C27: whenever no mutation is between its change and its file write and no
\* file write has failed so far, the file read back is the in-memory record,
\* also after mutations of two workers whose changes and file writes
\* interleaved.
C27_FileEqualsRecordAtRest ==
  ((\A t \in Threads : ~Mutating(t)) /\ <<"persist", 0>> \notin failures)
    => /\ fileExists
       /\ parses(file)
       /\ from_str(file) = state

C27_Witness ==
  \E t, u \in Threads :
    /\ t # u
    /\ Finished(t) /\ Finished(u) /\ failures = {}
    /\ overtaken[t] /\ HasEvent(t, "persist") /\ HasEvent(u, "persist")
    /\ req[t].kind = "hard" /\ req[u].kind = "input" /\ result[u] = "Ok"
    /\ changed[t] /\ changed[u]
    /\ from_str(file) = state
    /\ state.current_input = Some(req[u].id_str)
    /\ state.hard_power_state[req[t].id_str] = 1

\* Every request so far is the last one of its worker, so that req, result
\* and trace tell of all of them.
AllVisible == started = Cardinality({t \in Threads : req[t].kind # "none"})

\* The level the expander holds on a pin that has been written.
LevelOf(pin) == (CHOOSE e \in pins : e[1] = pin)[2]
Written(pin) == \E e \in pins : e[1] = pin

\* C28: when every hard-power request so far has succeeded and none is under
\* way, for each id whose pin was written the recorded flag is on exactly
\* when the pin holds the asserted level, also when a toggle and an on or off
\* for the same id ran side by side (no reset of the record having been asked).
C28_HardRecordAgreesWithPin ==
  (/\ AllVisible
   /\ \A t \in Threads : ~InFlight(t)
   /\ \A t \in Threads : req[t].kind = "hard" => result[t] = "Ok"
   /\ \A t \in Threads : req[t].kind # "reset")
    => \A id \in DOMAIN power_hard_config :
         Written(power_hard_config[id].pin)
           => (state.hard_power_state[id] = 1
                 <=> LevelOf(power_hard_config[id].pin) = power_hard_config[id].on_state)

\* The input ids whose pin the expander has.
InputIds == {id \in DOMAIN input_config : input_config[id].pin <= 7}

\* C29: when no select_input is under way, each input pin that has been
\* written holds its idle level, the inverse of pushed_state, unless a release
\* write on that pin has failed; so it does when every select_input so far
\* made both its writes, however the selections overlapped.
C29_InputPinsIdleAtRest ==
  (\A t \in Threads : req[t].kind = "input" => ~InFlight(t))
    => \A id \in InputIds :
         LET cfg == input_config[id]
         IN  Written(cfg.pin)
               => \/ LevelOf(cfg.pin) = 1 - cfg.pushed_state
                  \/ /\ LevelOf(cfg.pin) = cfg.pushed_state
                     /\ <<"release", cfg.pin>> \in failures

C29_Witness ==
  \E t, u \in Threads :
    /\ t # u
    /\ req[t] = [kind |-> "input", id_str |-> 2, action |-> ""]
    /\ req[u] = [kind |-> "input", id_str |-> 2, action |-> ""]
    /\ Finished(t) /\ result[t] = "Ok"
    /\ Finished(u) /\ result[u] = "InternalError" /\ Len(Writes(u)) = 2
    /\ failures = {<<"release", 1>>}
    /\ pins = {<<1, 1>>}

\* Two select_input requests for different ids have both succeeded, and no
\* other request so far was a select_input or a reset.
TwoSelections(t, u) ==
  /\ t # u /\ AllVisible
  /\ \A w \in Threads \ {t, u} : req[w].kind \notin {"input", "reset"}
  /\ req[t].kind = "input" /\ req[u].kind = "input"
  /\ req[t].id_str # req[u].id_str
  /\ Finished(t) /\ result[t] = "Ok"
  /\ Finished(u) /\ result[u] = "Ok"

\* C30 as stated: after two successful select_input requests for different
\* ids, current_input is the id whose assert write came last on the device.
C30_LastAssertWins ==
  \A t, u \in Threads :
    TwoSelections(t, u) => state.current_input = lastAssert

\* C30 as amended: after two successful select_input requests for different
\* ids, current_input is one of the two ids, in memory and in the file; each
\* request recorded its id before its assert write and without the device, so
\* which of the two it is does not follow from the order of the assert writes.
C30_EitherSelectionWins ==
  \A t, u \in Threads :
    TwoSelections(t, u)
      => /\ state.current_input \in {Some(req[t].id_str), Some(req[u].id_str)}
         /\ lastAssert \in {Some(req[t].id_str), Some(req[u].id_str)}
         /\ trace[t][1] = <<"record_input", req[t].id_str, 0>>
         /\ trace[t][3][1] = "write"
         /\ from_str(file).current_input = state.current_input

C30_Witness ==
  \E t, u \in Threads :
    /\ TwoSelections(t, u)
    /\ state.current_input = Some(1)
    /\ lastAssert = Some(2)
    /\ pins = {<<0, 0>>, <<1, 1>>}

====
